---------------------------- MODULE Spec2Model ----------------------------
(***************************************************************************)
(* A model of ealib's individual (libea/include/ea/individual.h) and of    *)
(* its numeric_vector representation                                       *)
(* (libea/include/ea/representations/numeric_vector.h): the data model,    *)
(* copy and assignment, the fitness ordering, and the serialization        *)
(* protocol down to the characters of the genome string.                   *)
(*                                                                         *)
(* Text is a sequence of one-character strings.  An element of type int is *)
(* an integer; an element of type double (and a generation, a fitness      *)
(* value) is a decimal with Scale fractional digits, held as the integer   *)
(* number of 10^-Scale units (2.5 is 250, 12345.67 is 1234567).            *)
(***************************************************************************)
EXTENDS Integers, Sequences, FiniteSets, TLC

\* Longest representation of the codec specifications.
MaxLen == 4
\* Longest representation of the round-trip, copy and ordering specifications.
MaxRepr == 2
\* Most element tokens of a hand-written genome string.
MaxTok == 2
\* Fractional decimal digits kept by the model's doubles.
Scale == 2
\* Significant digits an ostringstream writes for a double (its default
\* precision; numeric_vector::save never changes it).
StreamPrecision == 6
\* Significant digits the archive writes for a double (digits10 + 2).
ArchivePrecision == 17

----------------------------------------------------------------------------
(* Numbers as text: operator<< of an ostream.                              *)

Digits == <<"0", "1", "2", "3", "4", "5", "6", "7", "8", "9">>

IsDigit(c) == \E d \in 1..10 : Digits[d] = c

DigitVal(c) == (CHOOSE d \in 1..10 : Digits[d] = c) - 1

Abs(n) == IF n < 0 THEN -n ELSE n

RECURSIVE Pow10(_)
Pow10(k) == IF k = 0 THEN 1 ELSE 10 * Pow10(k - 1)

RECURSIVE NumDigits(_)
NumDigits(n) == IF n < 10 THEN 1 ELSE 1 + NumDigits(n \div 10)

RECURSIVE NatText(_)
NatText(n) ==
    IF n < 10 THEN <<Digits[n + 1]>>
    ELSE NatText(n \div 10) \o <<Digits[(n % 10) + 1]>>

\* out << n for an integer n (int, long, size_t).
IntText(n) == IF n < 0 THEN <<"-">> \o NatText(-n) ELSE NatText(n)

\* The fractional digits of f units (0 <= f < 10^k) written with k digits,
\* trailing zeros dropped; empty when f = 0.
RECURSIVE FracText(_, _)
FracText(f, k) ==
    IF f = 0 THEN <<>>
    ELSE <<Digits[(f \div Pow10(k - 1)) + 1]>> \o FracText(f % Pow10(k - 1), k - 1)

\* |v| rounded to prec significant digits, in units.
RoundSig(a, prec) ==
    LET drop == IF NumDigits(a) > prec THEN NumDigits(a) - prec ELSE 0
        unit == Pow10(drop)
    IN  ((a + (unit \div 2)) \div unit) * unit

\* out << v for a double v at precision prec, in the default (%g) format.
\* Covers the fixed notation, which %g uses for 10^-4 <= |v| < 10^prec.
DoubleText(v, prec) ==
    LET r == RoundSig(Abs(v), prec)
        body == NatText(r \div Pow10(Scale)) \o
                (IF r % Pow10(Scale) = 0 THEN <<>>
                 ELSE <<".">> \o FracText(r % Pow10(Scale), Scale))
    IN  IF v < 0 /\ r # 0 THEN <<"-">> \o body ELSE body

----------------------------------------------------------------------------
(* Text as numbers: operator>> of an istream.  A stream is its unread      *)
(* characters and its failbit.                                             *)

RECURSIVE SkipWs(_)
SkipWs(s) == IF s # <<>> /\ Head(s) = " " THEN SkipWs(Tail(s)) ELSE s

\* The length of the longest prefix of s made of digits.
RECURSIVE DigitRun(_)
DigitRun(s) == IF s # <<>> /\ IsDigit(Head(s)) THEN 1 + DigitRun(Tail(s)) ELSE 0

RECURSIVE NatVal(_)
NatVal(d) ==
    IF d = <<>> THEN 0
    ELSE 10 * NatVal(SubSeq(d, 1, Len(d) - 1)) + DigitVal(d[Len(d)])

Drop(s, k) == SubSeq(s, k + 1, Len(s))

\* The digits d of a fraction as units: the first Scale of them, padded.
FracVal(d) ==
    IF Len(d) >= Scale THEN NatVal(SubSeq(d, 1, Scale))
    ELSE NatVal(d) * Pow10(Scale - Len(d))

\* num_get on the characters s, which start at a non-blank: an optional
\* sign, digits and, for a double, a point and more digits.  ok is FALSE
\* when no digit is there.
ParseNum(T, s) ==
    LET neg  == s # <<>> /\ Head(s) = "-"
        s1   == IF neg THEN Tail(s) ELSE s
        n    == DigitRun(s1)
        s2   == Drop(s1, n)
        pt   == T = "double" /\ s2 # <<>> /\ Head(s2) = "."
        m    == IF pt THEN DigitRun(Tail(s2)) ELSE 0
        frac == IF pt THEN SubSeq(s2, 2, m + 1) ELSE <<>>
        rest == IF pt /\ (n + m > 0) THEN Drop(s2, m + 1) ELSE s2
        mag  == IF T = "double"
                THEN NatVal(SubSeq(s1, 1, n)) * Pow10(Scale) + FracVal(frac)
                ELSE NatVal(SubSeq(s1, 1, n))
    IN  [ok |-> n + m > 0, val |-> IF neg THEN -mag ELSE mag, rest |-> rest]

\* in >> t.  "skip": the sentry fails (the stream has failed, or holds no
\* more than blanks) and t is not written.  "bad": no number is there; t
\* is written 0 by a C++11 library and left alone by an older one.
Extract(T, in) ==
    LET s == SkipWs(in.buf)
        p == ParseNum(T, s)
    IN  IF in.fail \/ s = <<>>
        THEN [st |-> "skip", val |-> 0, in |-> [buf |-> s, fail |-> TRUE]]
        ELSE IF ~p.ok
        THEN [st |-> "bad", val |-> 0, in |-> [buf |-> s, fail |-> TRUE]]
        ELSE [st |-> "ok", val |-> p.val, in |-> [buf |-> p.rest, fail |-> FALSE]]

\* The value t holds after in >> t gave result x.
Extracted(x, t, cxx11) ==
    CASE x.st = "ok"   -> x.val
      [] x.st = "skip" -> t
      [] x.st = "bad"  -> IF cxx11 THEN 0 ELSE t

----------------------------------------------------------------------------
(* numeric_vector<T>: the genome codec.                                    *)

ElemText(T, e) ==
    IF T = "double" THEN DoubleText(e, StreamPrecision) ELSE IntText(e)

\* The loop of save: out << " " << *i for every element, in order.
RECURSIVE SaveElems(_, _)
SaveElems(T, v) ==
    IF v = <<>> THEN <<>>
    ELSE <<" ">> \o ElemText(T, Head(v)) \o SaveElems(T, Tail(v))

\* A save that ends every element with a space.
numeric_vector_save_trailing_space(T, v) ==
    IntText(Len(v)) \o SaveElems(T, v) \o <<" ">>

\* numeric_vector::save: the genome string, the size and then the elements.
numeric_vector_save(T, v) == IntText(Len(v)) \o SaveElems(T, v)

\* The loop of load: for( ; s>0; --s) { in >> t; push_back(t); }.
RECURSIVE LoadElems(_, _, _, _, _, _)
LoadElems(T, v, in, s, t, cxx11) ==
    IF s = 0 THEN v
    ELSE LET x  == Extract(T, in)
             t2 == Extracted(x, t, cxx11)
         IN  LoadElems(T, Append(v, t2), x.in, s - 1, t2, cxx11)

\* A load that clears the vector first.
numeric_vector_load_clearing(T, v, genome, junk, cxx11) ==
    LET c == Extract("int", [buf |-> genome, fail |-> FALSE])
        s == Extracted(c, junk.s, cxx11)
    IN  LoadElems(T, <<>>, c.in, s, junk.t, cxx11)

\* numeric_vector::load into a vector holding v.  s and t are declared
\* without a value: junk.s and junk.t are what they hold before the first
\* extraction writes them.
numeric_vector_load(T, v, genome, junk, cxx11) ==
    LET c == Extract("int", [buf |-> genome, fail |-> FALSE])
        s == Extracted(c, junk.s, cxx11)
    IN  LoadElems(T, v, c.in, s, junk.t, cxx11)

----------------------------------------------------------------------------
(* The fitness and meta data types, which individual.h only uses.          *)

NullFitness == [null |-> TRUE, val |-> 0]

Fitness(x) == [null |-> FALSE, val |-> x]

is_null(f) == f.null

\* nullify keeps no promise about the value the fitness held.
nullify(f) == [f EXCEPT !.null = TRUE]

\* The ordering of the fitness type; a null fitness is below and above
\* nothing.
fitness_less(f, g) == ~f.null /\ ~g.null /\ f.val < g.val

fitness_save(f) == DoubleText(f.val, ArchivePrecision)

fitness_load(text) == Fitness(ParseNum("double", text).val)

MdKeyOrder == <<"loc">>

EmptyMd == <<>>

md_put(md, k, x) ==
    [j \in (DOMAIN md) \cup {k} |-> IF j = k THEN x ELSE md[j]]

----------------------------------------------------------------------------
(* The archive: a document of elements, each a tag with a text or with     *)
(* nested elements, in the order they were written.                        *)

Leaf(tag, text) == [tag |-> tag, text |-> text, kids |-> <<>>]

Node(tag, kids) == [tag |-> tag, text |-> <<>>, kids |-> kids]

BoolText(b) == IF b THEN <<"1">> ELSE <<"0">>

RECURSIVE MdKids(_, _)
MdKids(md, keys) ==
    IF keys = <<>> THEN <<>>
    ELSE (IF Head(keys) \in DOMAIN md
          THEN <<Leaf(Head(keys), <<md[Head(keys)]>>)>> ELSE <<>>)
         \o MdKids(md, Tail(keys))

meta_data_save(md) == MdKids(md, MdKeyOrder)

meta_data_load(kids) ==
    [k \in {kids[i].tag : i \in DOMAIN kids} |->
        (CHOOSE e \in {kids[i] : i \in DOMAIN kids} : e.tag = k).text[1]]

Tags(kids) == [i \in DOMAIN kids |-> kids[i].tag]

----------------------------------------------------------------------------
(* individual<Representation, FitnessFunction>, as the value of its six    *)
(* members: [name, generation, update, fitness, repr, md].                 *)

\* individual(): name 0, generation 0.0, update 0, the members default
\* constructed.
DefaultIndividual ==
    [name |-> 0, generation |-> 0, update |-> 0, fitness |-> NullFitness,
     repr |-> <<>>, md |-> EmptyMd]

\* A save that writes the fitness whatever the flag.
save_always_fitness(T, I) ==
    <<Leaf("name", IntText(I.name)),
      Leaf("generation", DoubleText(I.generation, ArchivePrecision)),
      Leaf("null_fitness", BoolText(is_null(I.fitness))),
      Leaf("fitness", fitness_save(I.fitness)),
      Node("representation", <<Leaf("genome", numeric_vector_save(T, I.repr))>>),
      Node("meta_data", meta_data_save(I.md)),
      Leaf("update", IntText(I.update))>>

\* individual::save: the elements it writes, in order.
save(T, I) ==
    <<Leaf("name", IntText(I.name)),
      Leaf("generation", DoubleText(I.generation, ArchivePrecision)),
      Leaf("null_fitness", BoolText(is_null(I.fitness)))>>
    \o (IF ~is_null(I.fitness)
        THEN <<Leaf("fitness", fitness_save(I.fitness))>> ELSE <<>>)
    \o <<Node("representation", <<Leaf("genome", numeric_vector_save(T, I.repr))>>),
         Node("meta_data", meta_data_save(I.md)),
         Leaf("update", IntText(I.update))>>

\* A load that reads the fitness whatever the flag.
load_order_always_fitness(null_fitness) ==
    <<"name", "generation", "null_fitness", "fitness",
      "representation", "meta_data", "update">>

\* The tags individual::load reads, in order, once it has read the flag.
load_order(null_fitness) ==
    <<"name", "generation", "null_fitness">>
    \o (IF null_fitness THEN <<>> ELSE <<"fitness">>)
    \o <<"representation", "meta_data", "update">>

\* How many of the tags want the archive reader finds, in order, in kids.
RECURSIVE Found(_, _)
Found(kids, want) ==
    IF kids = <<>> \/ want = <<>> \/ Head(kids).tag # Head(want) THEN 0
    ELSE 1 + Found(Tail(kids), Tail(want))

\* individual::load into the individual I0 from the elements kids.  The
\* reader throws at the first tag it does not find: ok is FALSE and reads
\* are the tags read until then.
load(T, I0, kids, junk, cxx11) ==
    LET flag == Found(kids, load_order(TRUE)) >= 3 /\ kids[3].text = BoolText(TRUE)
        want == load_order(flag)
        n    == Found(kids, want)
        r    == IF flag THEN 4 ELSE 5
        ok   == n = Len(want) /\ Tags(kids[r].kids) = <<"genome">>
    IN  [ok |-> ok,
         reads |-> SubSeq(want, 1, n),
         nullified |-> n >= 3 /\ flag,
         ind |-> IF ~ok THEN I0 ELSE
            [name |-> ParseNum("int", kids[1].text).val,
             generation |-> ParseNum("double", kids[2].text).val,
             fitness |-> IF flag THEN nullify(I0.fitness)
                         ELSE fitness_load(kids[4].text),
             repr |-> numeric_vector_load(T, I0.repr, kids[r].kids[1].text,
                                          junk, cxx11),
             md |-> meta_data_load(kids[r + 1].kids),
             update |-> ParseNum("int", kids[r + 2].text).val]]

\* individual_save: one element "individual" on the stream.
individual_save(T, I) == <<Node("individual", save(T, I))>>

\* individual_load(std::istream&): a default individual, an archive reader
\* on the stream in = [good, doc], the element "individual" read into it.
\* The reader throws on a stream that is not good or holds no such element.
individual_load(T, in, junk, cxx11) ==
    LET there == in.good /\ in.doc # <<>> /\ in.doc[1].tag = "individual"
        r == load(T, DefaultIndividual, in.doc[1].kids, junk, cxx11)
    IN  IF there /\ r.ok
        THEN [status |-> "ok", ind |-> r.ind, reads |-> r.reads,
              nullified |-> r.nullified]
        ELSE [status |-> "error", ind |-> DefaultIndividual,
              reads |-> IF there THEN r.reads ELSE <<>>,
              nullified |-> there /\ r.nullified]

\* A comparison that breaks ties of the fitness by the name.
less_name_tiebreak(a, b) ==
    \/ fitness_less(a.fitness, b.fitness)
    \/ (a.fitness = b.fitness /\ a.name < b.name)

\* operator<: individuals compare by their fitness.
less(a, b) == fitness_less(a.fitness, b.fitness)

----------------------------------------------------------------------------
(* The state: two individuals and the storage of their members, the        *)
(* streams they are written to and read from, and the outcome of the last  *)
(* call.                                                                   *)

VARIABLES
    elemType,   \* T of numeric_vector<T>: "int" or "double"
    ind,        \* per individual: _name, _generation, _update, _fitness
    owns,       \* per individual: the storage holding its _repr and its _md
    vec,        \* per storage cell: the elements of a numeric_vector
    mds,        \* per storage cell: the entries of a meta_data
    ss,         \* the document on the stream individual_save wrote
    fs,         \* per path: the document of the file, or NoFile
    pc,         \* where individual_load(path) stands
    ifs,        \* its std::ifstream: the path and whether it opened
    call        \* the last call made and what it gave

vars == <<elemType, ind, owns, vec, mds, ss, fs, pc, ifs, call>>

Objs == {"A", "B"}

ElemTypes == {"int", "double"}

Elems(T) == IF T = "int" THEN {3, -1, 0, 42} ELSE {100, 250, 1234567}

Names == {0, 7}

Generations == {0, 250}

Updates == {0, 100}

FitnessValues == {100, 250}

Fitnesses ==
    {NullFitness} \cup {Fitness(x) : x \in FitnessValues}
    \cup {nullify(Fitness(x)) : x \in FitnessValues}

MdValues == {"x"}

MetaDatas == {EmptyMd} \cup {md_put(EmptyMd, "loc", x) : x \in MdValues}

Paths == {"ind.xml", "none.xml"}

NoFile == "NoFile"

NoCall == [op |-> "none"]

SeqsUpTo(S, n) == UNION {[1..k -> S] : k \in 0..n}

\* What an uninitialised size_t and an uninitialised T may hold.
Junk == [s : {0, 1}, t : {0, 9}]

\* The individual o as the value of its members.
View(o) ==
    [name |-> ind[o].name, generation |-> ind[o].generation,
     update |-> ind[o].update, fitness |-> ind[o].fitness,
     repr |-> vec[owns[o].repr], md |-> mds[owns[o].md]]

Scalars(I) ==
    [name |-> I.name, generation |-> I.generation, update |-> I.update,
     fitness |-> I.fitness]

\* The individuals hold I and J, each in storage of its own, and the stream
\* holds doc.
Holding(T, I, J, doc) ==
    /\ elemType = T
    /\ ind = [o \in Objs |-> Scalars(IF o = "A" THEN I ELSE J)]
    /\ owns = [o \in Objs |-> [repr |-> o, md |-> o]]
    /\ vec = [c \in Objs |-> IF c = "A" THEN I.repr ELSE J.repr]
    /\ mds = [c \in Objs |-> IF c = "A" THEN I.md ELSE J.md]
    /\ ss = doc
    /\ fs = [p \in Paths |-> NoFile]
    /\ pc = "idle"
    /\ ifs = [path |-> "", good |-> FALSE]
    /\ call = NoCall

\* Two default-constructed individuals.
Init ==
    \E T \in ElemTypes : Holding(T, DefaultIndividual, DefaultIndividual, <<>>)

----------------------------------------------------------------------------
(* The accessors: name(), generation(), update(), fitness(), repr() and    *)
(* md() hand out references through which the caller writes the member.    *)

SetName(o, n) ==
    /\ pc = "idle"
    /\ ind' = [ind EXCEPT ![o].name = n]
    /\ UNCHANGED <<elemType, owns, vec, mds, ss, fs, pc, ifs, call>>

SetGeneration(o, g) ==
    /\ pc = "idle"
    /\ ind' = [ind EXCEPT ![o].generation = g]
    /\ UNCHANGED <<elemType, owns, vec, mds, ss, fs, pc, ifs, call>>

SetUpdate(o, u) ==
    /\ pc = "idle"
    /\ ind' = [ind EXCEPT ![o].update = u]
    /\ UNCHANGED <<elemType, owns, vec, mds, ss, fs, pc, ifs, call>>

SetFitness(o, x) ==
    /\ pc = "idle"
    /\ ind' = [ind EXCEPT ![o].fitness = Fitness(x)]
    /\ UNCHANGED <<elemType, owns, vec, mds, ss, fs, pc, ifs, call>>

Nullify(o) ==
    /\ pc = "idle"
    /\ ind' = [ind EXCEPT ![o].fitness = nullify(@)]
    /\ UNCHANGED <<elemType, owns, vec, mds, ss, fs, pc, ifs, call>>

PushBack(o, e) ==
    /\ pc = "idle"
    /\ Len(vec[owns[o].repr]) < MaxRepr
    /\ vec' = [vec EXCEPT ![owns[o].repr] = Append(@, e)]
    /\ UNCHANGED <<elemType, ind, owns, mds, ss, fs, pc, ifs, call>>

PopBack(o) ==
    /\ pc = "idle"
    /\ vec[owns[o].repr] # <<>>
    /\ vec' = [vec EXCEPT ![owns[o].repr] = SubSeq(@, 1, Len(@) - 1)]
    /\ UNCHANGED <<elemType, ind, owns, mds, ss, fs, pc, ifs, call>>

MdPut(o, x) ==
    /\ pc = "idle"
    /\ mds' = [mds EXCEPT ![owns[o].md] = md_put(@, "loc", x)]
    /\ UNCHANGED <<elemType, ind, owns, vec, ss, fs, pc, ifs, call>>

MdClear(o) ==
    /\ pc = "idle"
    /\ mds' = [mds EXCEPT ![owns[o].md] = EmptyMd]
    /\ UNCHANGED <<elemType, ind, owns, vec, ss, fs, pc, ifs, call>>

\* The element the caller pushes, one per element type.
PushElem(T) == IF T = "int" THEN 42 ELSE 250

\* Any write to individual o through its accessors.
Mutate(o) ==
    \/ \E n \in Names : SetName(o, n)
    \/ \E g \in Generations : SetGeneration(o, g)
    \/ \E u \in Updates : SetUpdate(o, u)
    \/ SetFitness(o, 100)
    \/ Nullify(o)
    \/ PushBack(o, PushElem(elemType))
    \/ PopBack(o)
    \/ \E x \in MdValues : MdPut(o, x)
    \/ MdClear(o)

----------------------------------------------------------------------------
(* Copy construction and assignment.                                       *)

\* An assignment after which this shares the storage of that.
assign_members_shared(h, this, that) ==
    [ind  |-> [h.ind EXCEPT ![this] = h.ind[that]],
     owns |-> [h.owns EXCEPT ![this] = h.owns[that]],
     vec  |-> h.vec,
     mds  |-> h.mds]

\* The six member assignments both of them make, on the members
\* h = [ind, owns, vec, mds]: each member of that is copied into the
\* storage of this.
assign_members(h, this, that) ==
    [ind  |-> [h.ind EXCEPT ![this] = h.ind[that]],
     owns |-> h.owns,
     vec  |-> [h.vec EXCEPT ![h.owns[this].repr] = h.vec[h.owns[that].repr]],
     mds  |-> [h.mds EXCEPT ![h.owns[this].md] = h.mds[h.owns[that].md]]]

Members == [ind |-> ind, owns |-> owns, vec |-> vec, mds |-> mds]

SetMembers(h) ==
    /\ ind' = h.ind
    /\ owns' = h.owns
    /\ vec' = h.vec
    /\ mds' = h.mds

\* individual(const individual& that): this is built anew as a copy.
CopyConstruct(this, that) ==
    /\ pc = "idle"
    /\ this # that
    /\ SetMembers(assign_members(Members, this, that))
    /\ call' = [op |-> "copy"]
    /\ UNCHANGED <<elemType, ss, fs, pc, ifs>>

\* operator=: nothing is assigned when this and that are one object.
Assign(this, that) ==
    /\ pc = "idle"
    /\ SetMembers(IF this # that THEN assign_members(Members, this, that)
                  ELSE Members)
    /\ call' = [op |-> "assign"]
    /\ UNCHANGED <<elemType, ss, fs, pc, ifs>>

\* a < b.
Compare(a, b) ==
    /\ pc = "idle"
    /\ call' = [op |-> "less", a |-> a, b |-> b, res |-> less(View(a), View(b))]
    /\ UNCHANGED <<elemType, ind, owns, vec, mds, ss, fs, pc, ifs>>

----------------------------------------------------------------------------
(* Saving and loading.                                                     *)

\* individual_save(out, ind, ea) on the string stream.
Save(o) ==
    /\ pc = "idle"
    /\ ss' = individual_save(elemType, View(o))
    /\ call' = [op |-> "save", obj |-> o]
    /\ UNCHANGED <<elemType, ind, owns, vec, mds, fs, pc, ifs>>

\* individual_save(out, ind, ea) on an ofstream the caller opened on path p.
SaveFile(o, p) ==
    /\ pc = "idle"
    /\ fs' = [fs EXCEPT ![p] = individual_save(elemType, View(o))]
    /\ call' = [op |-> "save", obj |-> o]
    /\ UNCHANGED <<elemType, ind, owns, vec, mds, ss, pc, ifs>>

\* individual_load(in, ea) on a good stream holding doc.
Load(doc) ==
    /\ pc = "idle"
    /\ \E junk \in Junk, cxx11 \in BOOLEAN :
          call' = [op |-> "load", doc |-> doc,
                   res |-> individual_load(elemType, [good |-> TRUE, doc |-> doc],
                                           junk, cxx11)]
    /\ UNCHANGED <<elemType, ind, owns, vec, mds, ss, fs, pc, ifs>>

\* The stream individual_save wrote is read back.
LoadSaved == Load(ss)

\* Genome strings written by hand: a count token, or one that is no
\* number, then up to MaxTok element tokens, single spaces between.
CountTokens == {NatText(n) : n \in 0..MaxTok} \cup {<<"x">>}

ElemTokens(T) ==
    IF T = "int" THEN {<<"1">>, <<"-", "2">>, <<"x">>}
    ELSE {<<"1">>, <<"2", ".", "5">>, <<"x">>}

RECURSIVE Spaced(_)
Spaced(toks) ==
    IF toks = <<>> THEN <<>> ELSE <<" ">> \o Head(toks) \o Spaced(Tail(toks))

Genomes(T) ==
    {c \o Spaced(toks) : c \in CountTokens, toks \in SeqsUpTo(ElemTokens(T), MaxTok)}

\* The archive of a default individual whose genome string is text.
GenomeDoc(text) ==
    LET kids == save("int", DefaultIndividual)
    IN  <<Node("individual",
               [kids EXCEPT ![4] = Node("representation", <<Leaf("genome", text)>>)])>>

\* The genome string of the archive doc.
GenomeOf(doc) ==
    LET kids == doc[1].kids
        r == CHOOSE i \in DOMAIN kids : kids[i].tag = "representation"
    IN  kids[r].kids[1].text

\* What a numeric_vector holds before an archive is loaded into it.
Priors == SeqsUpTo({5}, MaxRepr)

\* numeric_vector::load from the archive on the stream into the
\* representation of the existing individual o.
VecLoad(o) ==
    /\ pc = "idle"
    /\ ss # <<>>
    /\ Len(vec[owns[o].repr]) <= MaxRepr
    /\ \E junk \in Junk, cxx11 \in BOOLEAN :
          LET after == numeric_vector_load(elemType, vec[owns[o].repr],
                                           GenomeOf(ss), junk, cxx11)
          IN  /\ vec' = [vec EXCEPT ![owns[o].repr] = after]
              /\ call' = [op |-> "vload", before |-> vec[owns[o].repr],
                          genome |-> GenomeOf(ss), after |-> after]
    /\ UNCHANGED <<elemType, ind, owns, mds, ss, fs, pc, ifs>>

\* individual_load(fname, ea), line 184: the ifstream is constructed.
PathOpen(p) ==
    /\ pc = "idle"
    /\ pc' = "opened"
    /\ ifs' = [path |-> p, good |-> fs[p] # NoFile]
    /\ UNCHANGED <<elemType, ind, owns, vec, mds, ss, fs, call>>

\* Line 185 calls individual_load(ifs, ea), which constructs the
\* individual and the archive reader on the stream (lines 176-177).
PathCall ==
    /\ pc = "opened"
    /\ pc' = "archive"
    /\ UNCHANGED <<elemType, ind, owns, vec, mds, ss, fs, ifs, call>>

\* The reader reads the stream (lines 177-179); the ifstream is destroyed
\* as the call returns or throws.
PathParse ==
    /\ pc = "archive"
    /\ pc' = "idle"
    /\ \E junk \in Junk, cxx11 \in BOOLEAN :
          LET doc == IF ifs.good THEN fs[ifs.path] ELSE <<>>
          IN  call' = [op |-> "load", doc |-> doc,
                       res |-> individual_load(elemType,
                                               [good |-> ifs.good, doc |-> doc],
                                               junk, cxx11)]
    /\ ifs' = [path |-> "", good |-> FALSE]
    /\ UNCHANGED <<elemType, ind, owns, vec, mds, ss, fs>>

----------------------------------------------------------------------------
(* The specifications.                                                     *)

\* The individuals the serialization is tried on: every combination of
\* member values with a short representation, and the default individual
\* with every representation up to MaxLen.
Inputs(T) ==
    [name : Names, generation : Generations, update : Updates,
     fitness : Fitnesses, repr : SeqsUpTo(Elems(T), MaxRepr), md : MetaDatas]
    \cup {[DefaultIndividual EXCEPT !.repr = v] : v \in SeqsUpTo(Elems(T), MaxLen)}

InitIO ==
    \E T \in ElemTypes : \E I \in Inputs(T) :
        Holding(T, I, DefaultIndividual, <<>>)

\* A stream holding an archive with a hand-written genome string, and an
\* individual B that holds a representation already.
InitCodec ==
    \E T \in ElemTypes : \E v \in Priors, text \in Genomes(T) :
        Holding(T, DefaultIndividual, [DefaultIndividual EXCEPT !.repr = v],
                GenomeDoc(text))

\* Two default-constructed individuals of one representation type.
InitCopy == Holding("int", DefaultIndividual, DefaultIndividual, <<>>)

\* The individuals compared.
CmpInputs ==
    {[DefaultIndividual EXCEPT !.name = n, !.update = u, !.fitness = f, !.repr = r] :
        n \in Names, u \in Updates, f \in Fitnesses, r \in {<<>>, <<3>>}}

InitCmp == \E I \in CmpInputs, J \in CmpInputs : Holding("int", I, J, <<>>)

NextCopy ==
    \/ \E o \in Objs : Mutate(o)
    \/ \E this \in Objs, that \in Objs : CopyConstruct(this, that)
    \/ \E this \in Objs, that \in Objs : Assign(this, that)

NextCmp == \E a \in Objs, b \in Objs : Compare(a, b)

NextIO == Save("A") \/ LoadSaved

NextCodec == LoadSaved \/ VecLoad("B")

NextPath ==
    \/ SaveFile("A", "ind.xml")
    \/ \E p \in Paths : PathOpen(p)
    \/ PathCall
    \/ PathParse

Next == NextCopy \/ NextCmp \/ NextIO \/ NextCodec \/ NextPath

\* Individuals written to and copied from each other.
SpecCopy == InitCopy /\ [][NextCopy]_vars

\* Individuals compared.
SpecCmp == InitCmp /\ [][NextCmp]_vars

\* An individual saved to a stream and loaded back.
SpecIO == InitIO /\ [][NextIO]_vars

\* Archives with hand-written genome strings loaded.
SpecCodec == InitCodec /\ [][NextCodec]_vars

\* An individual saved to a file, and files loaded by path.
SpecPath == InitIO /\ [][NextPath]_vars

Spec == Init /\ [][Next]_vars

----------------------------------------------------------------------------
(* The properties.                                                         *)

\* The tokens of a text: what stands between its spaces.
RECURSIVE Split(_)
Split(s) ==
    IF \A i \in DOMAIN s : s[i] # " " THEN <<s>>
    ELSE LET i == CHOOSE k \in DOMAIN s : s[k] = " " /\ \A j \in 1..(k - 1) : s[j] # " "
         IN  <<SubSeq(s, 1, i - 1)>> \o Split(Drop(s, i))

\* The token is a number of type T and nothing else.
IsNumber(T, tok) == ParseNum(T, tok).ok /\ ParseNum(T, tok).rest = <<>>

Count(seq, x) == Cardinality({i \in DOMAIN seq : seq[i] = x})

\* The last call loaded the stream individual_save wrote for A.
LoadedSaved == call.op = "load" /\ call.doc # <<>> /\ call.doc = ss

(* C1: an individual with a non-null fitness that is saved and loaded into
   a fresh individual comes back with the same name, generation, update,
   representation, meta data and fitness. *)
RoundTripIdentity ==
    (LoadedSaved /\ ~is_null(View("A").fitness)) =>
        /\ call.res.status = "ok"
        /\ call.res.ind = View("A")

(* C2: an individual with a null fitness that is saved and loaded comes
   back with a null fitness, whatever value the fitness held, and with the
   same name, generation, update and representation. *)
NullFitnessRoundTrip ==
    (LoadedSaved /\ is_null(View("A").fitness)) =>
        /\ call.res.status = "ok"
        /\ is_null(call.res.ind.fitness)
        /\ call.res.ind.name = View("A").name
        /\ call.res.ind.generation = View("A").generation
        /\ call.res.ind.update = View("A").update
        /\ call.res.ind.repr = View("A").repr

(* C3: a genome string whose count token is N and which holds N-1 or N+1
   element tokens makes the load fail: no individual is returned. *)
TokenCountMismatchRejected ==
    (/\ call.op = "load"
     /\ call.doc # <<>>
     /\ LET toks == Split(GenomeOf(call.doc))
        IN  /\ IsNumber("int", toks[1])
            /\ \/ Len(toks) - 1 = ParseNum("int", toks[1]).val - 1
               \/ Len(toks) - 1 = ParseNum("int", toks[1]).val + 1)
    => call.res.status = "error"

(* C4: individual_load(path) never comes to construct the archive reader
   on a stream that failed to open. *)
OpenFailureBeforeParsing == ~(pc = "archive" /\ ~ifs.good)

(* C5: every archive individual::save produces holds name, generation,
   null_fitness, the fitness only when the flag is false, representation,
   meta_data and update, in this order; the fitness is there exactly when
   the flag written is false, and the flag is is_null() of the fitness
   saved. *)
SaveFieldOrder ==
    ss # <<>> =>
        LET kids == ss[1].kids
            null == is_null(View("A").fitness)
        IN  /\ Tags(ss) = <<"individual">>
            /\ Tags(kids) =
                  IF null
                  THEN <<"name", "generation", "null_fitness",
                         "representation", "meta_data", "update">>
                  ELSE <<"name", "generation", "null_fitness", "fitness",
                         "representation", "meta_data", "update">>
            /\ kids[3].text = IF null THEN <<"1">> ELSE <<"0">>
            /\ (Count(Tags(kids), "fitness") = 1) <=> (kids[3].text = <<"0">>)
            /\ Count(Tags(kids), "fitness") <= 1

SaveFieldOrderWitness ==
    /\ ss # <<>>
    /\ is_null(View("A").fitness)
    /\ View("A").fitness.val = 250
    /\ View("A").repr # <<>>

(* C6: individual::load reads the tags individual::save wrote, in the same
   order; when the flag is true it nullifies the fitness and reads no
   fitness, when it is false it reads the fitness once; no field is left
   unread and none is read that is not there. *)
LoadMirrorsSave ==
    LoadedSaved =>
        LET r == call.res
            null == is_null(View("A").fitness)
        IN  /\ r.status = "ok"
            /\ r.reads = Tags(call.doc[1].kids)
            /\ r.nullified = null
            /\ is_null(r.ind.fitness) = null
            /\ Count(r.reads, "fitness") = IF null THEN 0 ELSE 1

LoadMirrorsSaveWitness ==
    /\ LoadedSaved
    /\ call.res.nullified
    /\ Count(call.res.reads, "fitness") = 0
    /\ Len(call.res.reads) = 6

(* C7: once an individual was copy-constructed from or assigned another,
   a write to one individual through its accessors changes no member of
   the other. *)
CopyIndependence ==
    [][\A p \in Objs :
          (call.op \in {"copy", "assign"} /\ Mutate(p)) =>
              \A o \in Objs \ {p} : View(o)' = View(o)]_vars

CopyIndependenceWitness ==
    /\ call.op = "copy"
    /\ View("A").repr # View("B").repr
    /\ View("A").md # View("B").md
    /\ View("A").fitness # View("B").fitness
    /\ View("A").name # View("B").name

(* C8: a < b exactly when a.fitness() < b.fitness(); individuals with the
   same fitness values compare the same whatever their other members. *)
OrderingByFitness ==
    call.op = "less" =>
        /\ call.res = fitness_less(View(call.a).fitness, View(call.b).fitness)
        /\ \A p \in Objs, q \in Objs :
              (/\ View(p).fitness = View(call.a).fitness
               /\ View(q).fitness = View(call.b).fitness)
              => less(View(p), View(q)) = call.res

OrderingByFitnessWitness ==
    /\ call.op = "less"
    /\ call.res
    /\ View(call.a).name > View(call.b).name
    /\ View(call.a).repr # View(call.b).repr

(* C9: the genome string of a representation of length N is N+1 tokens
   with single spaces between them, the first the count N, token i+1 the
   text of element i; [3, -1, 0, 42] gives "4 3 -1 0 42" and the empty
   representation gives "0". *)
GenomeFormat ==
    ss # <<>> =>
        LET g == GenomeOf(ss)
            v == View("A").repr
            toks == Split(g)
        IN  /\ Len(toks) = Len(v) + 1
            /\ \A i \in DOMAIN toks : toks[i] # <<>>
            /\ IsNumber("int", toks[1])
            /\ ParseNum("int", toks[1]).val = Len(v)
            /\ \A i \in DOMAIN v : toks[i + 1] = ElemText(elemType, v[i])
            /\ elemType = "int" =>
                  \A i \in DOMAIN v :
                      /\ IsNumber("int", toks[i + 1])
                      /\ ParseNum("int", toks[i + 1]).val = v[i]
            /\ (elemType = "int" /\ v = <<3, -1, 0, 42>>) =>
                  g = <<"4", " ", "3", " ", "-", "1", " ", "0", " ", "4", "2">>
            /\ v = <<>> => g = <<"0">>

GenomeFormatWitness ==
    /\ ss # <<>>
    /\ elemType = "int"
    /\ View("A").repr = <<3, -1, 0, 42>>

(* C10: numeric_vector::load does not clear its target.  When the count
   token is the number N it appends N elements after the elements the
   vector held and leaves those alone, whatever follows the count; what is
   loaded is the sequence the string spells only when the vector was
   empty, as the one of individual_load is. *)
LoadAppends ==
    LET g    == IF call.op = "vload" THEN call.genome ELSE GenomeOf(call.doc)
        toks == Split(g)
        N    == ParseNum("int", toks[1]).val
        well == /\ Len(toks) = N + 1
                /\ \A i \in 2..Len(toks) : IsNumber(elemType, toks[i])
        spelt == [i \in 1..N |-> ParseNum(elemType, toks[i + 1]).val]
    IN  /\ (call.op = "vload" /\ IsNumber("int", toks[1])) =>
              /\ Len(call.after) = Len(call.before) + N
              /\ SubSeq(call.after, 1, Len(call.before)) = call.before
              /\ well => call.after = call.before \o spelt
              /\ (well /\ call.after = spelt) => call.before = <<>>
        /\ (call.op = "load" /\ IsNumber("int", toks[1])) =>
              /\ call.res.status = "ok"
              /\ Len(call.res.ind.repr) = N
              /\ well => call.res.ind.repr = spelt

LoadAppendsWitness ==
    /\ call.op = "vload"
    /\ call.before # <<>>
    /\ LET toks == Split(call.genome)
       IN  /\ IsNumber("int", toks[1])
           /\ ParseNum("int", toks[1]).val = 2
           /\ Len(toks) = 2
    /\ Len(call.after) = Len(call.before) + 2

====
